---- MODULE Spec2Model ----
(***************************************************************************)
(* MCPClientWithPassport (client_example.py): the policy-gated tool call.  *)
(* call_tool verifies a policy decision with the APort client, dispatches  *)
(* the tool over the MCP session with the agent_id attached, and retries   *)
(* in a bounded loop on denials (with adjusted arguments) and on errors.   *)
(* The three awaits of call_tool (verify_policy, session.call_tool,        *)
(* asyncio.sleep) are the points where the coroutine is suspended; every   *)
(* action below runs the code between two of them.                         *)
(***************************************************************************)
EXTENDS Integers, Sequences, FiniteSets, TLC

\* ------------------------------------------------------------------ bounds
\* largest max_retries a caller passes
MaxRetries == 3
\* small starting values of a reducible field are 1..MaxAmount
MaxAmount == 4
\* largest max_retries of a call that runs concurrently with another
ConcRetries == 2

\* ------------------------------------------------------------------- state
VARIABLES
    aport_client,        \* self.aport_client is set (the SDK is installed)
    session,             \* self.session: None, or the ClientSession as "open" or "exited"
    agent_id,            \* self.agent_id
    mcp_client,          \* the integration wrapper's self.mcp_client: None or "client"
    via,                 \* the entry point the caller used
    prev,                \* the previous call, when the caller repeats it
    pc,                  \* where call_tool stands
    tool_name, args, retry_on_denial, max_retries, retry_backoff, skip_verification,
    authority,           \* how the decision client behind verify_policy answers
    attempt, current_args, last_error,
    policy_id, context, decision,
    args_with_passport,
    executed,            \* the last dispatch: its attempt and how it came back
    outcome, raised,
    verified,            \* the last verification: its attempt, arguments and answer
    verifyCalls, execCalls, resolveCalls,
    sleeps,              \* the delays slept so far
    attemptLog,          \* per attempt: the arguments it ran with and how it ended
    heap,                \* the dict objects of two concurrent calls, by reference
    frames,              \* the frames of two concurrent calls of call_tool
    original             \* what the caller's mapping held when the caller built it

params == <<tool_name, args, retry_on_denial, max_retries, retry_backoff,
            skip_verification, authority, via>>

self == <<aport_client, session, agent_id, mcp_client>>

verifyVars == <<policy_id, context, decision, verified, verifyCalls, resolveCalls>>

execVars == <<args_with_passport, execCalls, executed>>

heapVars == <<heap, frames, original>>

mainVars == <<agent_id, mcp_client, via, prev, executed, aport_client, session, pc, tool_name, args, retry_on_denial, max_retries,
          retry_backoff, skip_verification, authority, attempt, current_args,
          last_error, policy_id, context, decision, args_with_passport, outcome,
          raised, verified, verifyCalls, execCalls, resolveCalls, sleeps, attemptLog>>

vars == <<mainVars, heapVars>>

\* ------------------------------------------------------- program constants
AGENT_ID == "ap_a2d10232c6534523812423eec8a1425c"

None == "None"

\* {}: the empty dict
EmptyDict == [x \in {} |-> None]

tool_to_policy_map ==
    [t \in {"merge_pull_request", "process_refund", "export_customer_data",
            "publish_release", "send_message", "execute_transaction",
            "access_data", "crypto_trade", "ingest_report", "review_contract"} |->
        CASE t = "merge_pull_request"   -> "code.repository.merge.v1"
          [] t = "process_refund"       -> "finance.payment.refund.v1"
          [] t = "export_customer_data" -> "data.export.create.v1"
          [] t = "publish_release"      -> "code.release.publish.v1"
          [] t = "send_message"         -> "messaging.message.send.v1"
          [] t = "execute_transaction"  -> "finance.transaction.execute.v1"
          [] t = "access_data"          -> "governance.data.access.v1"
          [] t = "crypto_trade"         -> "finance.crypto.trade.v1"
          [] t = "ingest_report"        -> "data.report.ingest.v1"
          [] t = "review_contract"      -> "legal.contract.review.v1"]

\* ------------------------------------------------------------ pure helpers
\* dict.get(key, default)
DictGet(d, k, default) == IF k \in DOMAIN d THEN d[k] ELSE default

\* {**d, k: v}, also d[k] = v on a dict
DictSet(d, k, v) == [x \in DOMAIN d \cup {k} |-> IF x = k THEN v ELSE d[x]]

\* {k: v, **d}: the entries of d come last and win
DictUnder(k, v, d) == [x \in DOMAIN d \cup {k} |-> IF x \in DOMAIN d THEN d[x] ELSE v]

\* d without key k
DictDrop(d, k) == [x \in DOMAIN d \ {k} |-> d[x]]

\* _get_policy_id_for_tool: the policy id, or None where the code raises ValueError
GetPolicyIdForTool(t) ==
    IF t \in DOMAIN tool_to_policy_map THEN tool_to_policy_map[t] ELSE None

\* an enrichment that writes its defaults whatever the caller supplied
BuildPolicyContextOverwriting(t, agent, a) ==
    LET base == DictUnder("agent_id", agent, a) IN
    IF t = "merge_pull_request"
    THEN DictSet(DictSet(base, "base_branch", "main"), "pr_size_kb", 250)
    ELSE IF t = "process_refund"
    THEN DictSet(base, "reason_code", "customer_request")
    ELSE base

\* _build_policy_context
BuildPolicyContext(t, agent, a) ==
    LET base == DictUnder("agent_id", agent, a) IN
    IF t = "merge_pull_request"
    THEN DictSet(DictSet(base, "base_branch", DictGet(a, "base_branch", "main")),
                 "pr_size_kb", DictGet(a, "pr_size_kb", 250))
    ELSE IF t = "process_refund"
    THEN DictSet(base, "reason_code", DictGet(a, "reason_code", "customer_request"))
    ELSE base

\* a verification step that reuses an allow decision it still holds for the same context
ShouldVerifyUnlessCached ==
    /\ ~skip_verification
    /\ ~(decision = "allow" /\ context = BuildPolicyContext(tool_name, agent_id, current_args))

\* a verification step that runs whatever the caller asked for
ShouldVerifyAlways == TRUE

\* "if not skip_verification" (line 172)
ShouldVerify == ~skip_verification

\* a dispatch that attaches the passport to the caller's original args
AttachPassportToOriginal(a, agent) == DictSet(args, "agent_id", agent)

\* a dispatch that lets an agent_id of the arguments stand
AttachPassportCallerWins(a, agent) == DictUnder("agent_id", agent, a)

\* args_with_passport = {**current_args, "agent_id": self.agent_id}
AttachPassport(a, agent) == DictSet(a, "agent_id", agent)

\* a reduction that leaves the value as it is
HalveIntUnchanged(x) == x

\* int(x * 0.5): Python's int() truncates toward zero
HalveInt(x) == IF x >= 0 THEN x \div 2 ELSE -((-x) \div 2)

\* the tool whose denial retries reduce field f, by the two branches of the adjustment
ReducibleField(t) ==
    IF t = "process_refund" THEN "amount"
    ELSE IF t = "export_customer_data" THEN "limit"
    ELSE None

\* an adjustment that halves amount and limit wherever it finds them
AdjustArgsEveryKey(t, a) ==
    LET b == IF "amount" \in DOMAIN a THEN DictSet(a, "amount", HalveInt(a["amount"])) ELSE a
    IN  IF "limit" \in DOMAIN b THEN DictSet(b, "limit", HalveInt(b["limit"])) ELSE b

\* an adjustment that knows the export rule only
AdjustArgsLimitOnly(t, a) ==
    IF t = "export_customer_data" /\ "limit" \in DOMAIN a
    THEN DictSet(a, "limit", HalveInt(a["limit"]))
    ELSE a

\* the argument adjustment made before a denial retry
AdjustArgs(t, a) ==
    IF t = "process_refund" /\ "amount" \in DOMAIN a
    THEN DictSet(a, "amount", HalveInt(a["amount"]))
    ELSE IF t = "export_customer_data" /\ "limit" \in DOMAIN a
    THEN DictSet(a, "limit", HalveInt(a["limit"]))
    ELSE a

\* a denial handler that retries whether or not the caller asked for it
RetryOnDenialIgnoringFlag(flag, att, maxr) == att < maxr - 1

\* a denial handler that also retries after the last attempt
RetryOnDenialOffByOne(flag, att, maxr) == flag /\ att < maxr

\* except PolicyDeniedError: "if retry_on_denial and attempt < max_retries - 1"
RetryOnDenial(flag, att, maxr) == flag /\ att < maxr - 1

\* a decision check that lets every decision through
NotAllowedNever(d) == FALSE

\* "if not decision.allow" (line 192)
NotAllowed(d) == d # "allow"

\* "for attempt in range(max_retries)": the range has a value for this iteration
RangeHasNext(att, maxr) == att < maxr

\* an error handler that never retries
RetryOnErrorNever(att, maxr) == FALSE

\* an error handler that also retries after the last attempt
RetryOnErrorOffByOne(att, maxr) == att < maxr

\* except Exception: "if attempt < max_retries - 1"
RetryOnError(att, maxr) == att < maxr - 1

\* a delay that does not grow with the attempt index
BackoffDelayConstant(backoff, att) == backoff

\* asyncio.sleep(retry_backoff * (attempt + 1))
BackoffDelay(backoff, att) == backoff * (att + 1)

\* an exception object: its class and what its .result holds
Err(type, res) == [type |-> type, result |-> res]

NoError == Err(None, None)

\* a check of the tool result that finds no marker in any result
HasDenialMarkerNever(r) == FALSE

\* lines 221-225: a text item of result.content contains "Policy denied"
HasDenialMarker(r) == r = "marker"

\* the exception a failed verify_policy call raises
VerifyError(d) ==
    IF d = "transient" THEN Err("AuthorityUnreachable", None) ELSE Err("InvalidPolicyId", None)

\* the decision client of the refund scenario: denies when amount > 500000
ThresholdDenies(ctx) == "amount" \in DOMAIN ctx /\ ctx["amount"] > 500000

\* ------------------------------------------------------------------ inputs
ToolNames == {"process_refund", "export_customer_data", "merge_pull_request",
              "nonexistent_tool"}

Amounts == (1..MaxAmount) \cup {1000000}

ArgChoices ==
    {[amount |-> a, currency |-> "USD"] : a \in Amounts}
      \cup {[limit |-> l] : l \in 1..MaxAmount}
      \cup {[amount |-> 3, agent_id |-> "ap_other"],
            [repository |-> "my-org/my-repo", base_branch |-> "develop"],
            [repository |-> "my-org/my-repo", pr_size_kb |-> 10],
            [amount |-> 2, reason_code |-> "fraud"],
            [amount |-> 2, limit |-> 2],
            [currency |-> "USD"], EmptyDict}

Backoffs == {1, 2}

Authorities == {"any", "threshold", "always_allow"}

VerifyOutcomes == {"allow", "deny", "transient", "permanent"}

ExecOutcomes == {"ok", "marker", "error"}

\* ----------------------------------------------------------- initial state
NotVerified == [attempt |-> -1, args |-> EmptyDict, result |-> None]

NotExecuted == [attempt |-> -1, result |-> None]

\* no previous call is remembered
NoPrev == [calls |-> 0, inputs |-> <<>>, attempts |-> 0, verifyCalls |-> 0,
           execCalls |-> 0, outcome |-> None]

\* ------------------------------------------- two concurrent calls, by reference
\* the two coroutines of call_tool a caller has started on one client
Calls == {1, 2}

\* references to dict objects: <<call, role, attempt>>
NoRef == <<0, "none", 0>>

\* the mapping the caller built and passes as args to both calls
CallerRef == <<0, "args", 0>>

\* a working mapping that is the caller's own object
CurrentArgsAlias(c) == CallerRef

\* "current_args = args.copy()" (line 167): a new object per call
CurrentArgsRef(c) == <<c, "current_args", 0>>

\* "context = {...}" in _build_policy_context (lines 129-132): a new object per attempt
ContextRef(c, k) == <<c, "context", k>>

\* a dispatch that hands the working mapping itself to the executor
DispatchIsCurrentArgs(c, k) == <<c, "current_args", 0>>

\* "args_with_passport = {...}" (lines 212-215): a new object per attempt
DispatchRef(c, k) == <<c, "args_with_passport", k>>

\* the object ref holds d: a new object, or an item assignment on an existing one
Store(h, ref, d) ==
    IF ref \in DOMAIN h THEN [h EXCEPT ![ref] = d] ELSE h @@ (ref :> d)

EmptyHeap == [r \in {} |-> EmptyDict]

\* the locals of a call_tool coroutine that has not been started
IdleFrame ==
    [pc |-> "idle", tool_name |-> None, retry_on_denial |-> FALSE, max_retries |-> 0,
     attempt |-> 0, current_args |-> NoRef, context |-> NoRef,
     args_with_passport |-> NoRef, handed |-> {}, denials |-> 0, retries |-> 0]

ConcTools == {"process_refund", "export_customer_data"}

ConcArgChoices == {[amount |-> 4, currency |-> "USD"], [amount |-> 2, limit |-> 2]}

Init ==
    /\ heap = EmptyHeap
    /\ frames = [c \in Calls |-> IdleFrame]
    /\ original = EmptyDict
    /\ aport_client \in BOOLEAN
    /\ session = None
    /\ agent_id = AGENT_ID
    /\ mcp_client = None
    /\ via = None
    /\ prev = NoPrev
    /\ executed = NotExecuted
    /\ pc = "idle"
    /\ tool_name = None
    /\ args = EmptyDict
    /\ retry_on_denial = FALSE
    /\ max_retries = 3
    /\ retry_backoff = 1
    /\ skip_verification = FALSE
    /\ authority = "any"
    /\ attempt = 0
    /\ current_args = EmptyDict
    /\ last_error = NoError
    /\ policy_id = None
    /\ context = EmptyDict
    /\ decision = None
    /\ args_with_passport = EmptyDict
    /\ outcome = None
    /\ raised = NoError
    /\ verified = NotVerified
    /\ verifyCalls = 0
    /\ execCalls = 0
    /\ resolveCalls = 0
    /\ sleeps = <<>>
    /\ attemptLog = <<>>

\* -------------------------------------------------- fragments of call_tool
\* log with its last entry, the current attempt, ended as e
EndAttempt(log, e) == [log EXCEPT ![Len(log)].end = e]

\* a raise after which the loop goes on
RaiseAndGoOn(err) ==
    /\ pc' = "loop"
    /\ outcome' = IF err.type = "PolicyDeniedError" THEN "Denied" ELSE "Failed"
    /\ raised' = err

\* "raise": the exception leaves call_tool
Raise(err) ==
    /\ pc' = "done"
    /\ outcome' = IF err.type = "PolicyDeniedError" THEN "Denied" ELSE "Failed"
    /\ raised' = err

\* "await asyncio.sleep(retry_backoff * (attempt + 1))" is entered
Sleep ==
    /\ pc' = "sleeping"
    /\ sleeps' = Append(sleeps, BackoffDelay(retry_backoff, attempt))
    /\ UNCHANGED <<outcome, raised>>

\* except PolicyDeniedError as error (lines 231-251)
OnPolicyDenied(err, log) ==
    /\ last_error' = err
    /\ attemptLog' = EndAttempt(log, "denied")
    /\ IF RetryOnDenial(retry_on_denial, attempt, max_retries)
       THEN /\ current_args' = AdjustArgs(tool_name, current_args)
            /\ Sleep
       ELSE /\ Raise(err)
            /\ UNCHANGED <<current_args, sleeps>>

\* an error handler that, out of attempts, raises the first error of the call
OnExceptionRaisingFirst(err, log) ==
    /\ last_error' = err
    /\ attemptLog' = EndAttempt(log, "error")
    /\ UNCHANGED current_args
    /\ IF RetryOnError(attempt, max_retries)
       THEN Sleep
       ELSE /\ Raise(IF last_error # NoError THEN last_error ELSE err)
            /\ UNCHANGED sleeps

\* except Exception as error (lines 253-258)
OnException(err, log) ==
    /\ last_error' = err
    /\ attemptLog' = EndAttempt(log, "error")
    /\ UNCHANGED current_args
    /\ IF RetryOnError(attempt, max_retries)
       THEN Sleep
       ELSE /\ Raise(err)
            /\ UNCHANGED sleeps

\* Step 2 (lines 205-218): the session check and the dispatch with agent_id attached
Dispatch(log) ==
    IF session = None
    THEN /\ OnException(Err("RuntimeError", None), log)
         /\ UNCHANGED execVars
    ELSE /\ args_with_passport' = AttachPassport(current_args, agent_id)
         /\ execCalls' = execCalls + 1
         /\ executed' = [attempt |-> attempt, result |-> "pending"]
         /\ pc' = "executing"
         /\ attemptLog' = log
         /\ UNCHANGED <<current_args, last_error, outcome, raised, sleeps>>

\* ----------------------------------------------------------------- actions
\* the ClientSession at the end of a context manager block: its __aexit__ has run
ExitContext(s) == IF s = "open" THEN "exited" ELSE s

\* what connect() leaves in self.session: the session is entered and assigned
\* inside "async with stdio_client(...)" and "async with ClientSession(...)",
\* and both blocks end, in that order, before connect() returns (lines 98-101)
SessionAfterConnect == ExitContext("open")

\* connect(): self.session is assigned
Connect ==
    /\ pc = "idle"
    /\ session = None
    /\ session' = SessionAfterConnect
    /\ UNCHANGED <<aport_client, agent_id, mcp_client, prev, pc, params, attempt, current_args, last_error,
                   verifyVars, execVars, outcome, raised, sleeps, attemptLog>>
    /\ UNCHANGED heapVars

\* call_tool is entered (lines 143-167)
Invoke(t, a, flag, maxr, backoff, skip, auth) ==
    /\ pc = "idle"
    /\ tool_name' = t
    /\ args' = a
    /\ retry_on_denial' = flag
    /\ max_retries' = maxr
    /\ retry_backoff' = backoff
    /\ skip_verification' = skip
    /\ authority' = auth
    /\ attempt' = 0
    /\ last_error' = NoError
    /\ policy_id' = None
    /\ context' = EmptyDict
    /\ decision' = None
    /\ verified' = NotVerified
    /\ args_with_passport' = EmptyDict
    /\ executed' = NotExecuted
    /\ verifyCalls' = 0
    /\ execCalls' = 0
    /\ resolveCalls' = 0
    /\ sleeps' = <<>>
    /\ attemptLog' = <<>>
    /\ IF aport_client
       THEN /\ current_args' = a
            /\ pc' = "loop"
            /\ outcome' = None
            /\ raised' = NoError
       ELSE /\ current_args' = EmptyDict
            /\ Raise(Err("RuntimeError", None))

\* the for loop is exhausted (line 260)
LoopExit ==
    /\ pc = "loop"
    /\ ~RangeHasNext(attempt, max_retries)
    /\ Raise(IF last_error # NoError THEN last_error ELSE Err("Exception", None))
    /\ UNCHANGED <<self, prev, params, attempt, current_args, last_error, verifyVars,
                   execVars, sleeps, attemptLog>>
    /\ UNCHANGED heapVars

\* one iteration starts and runs to its first await (lines 169-185, 205-218)
AttemptStart ==
    /\ pc = "loop"
    /\ RangeHasNext(attempt, max_retries)
    /\ LET log == Append(attemptLog, [args |-> current_args, end |-> "running"]) IN
       IF ~ShouldVerify
       THEN /\ Dispatch(log)
            /\ UNCHANGED verifyVars
       ELSE IF GetPolicyIdForTool(tool_name) = None
            THEN /\ resolveCalls' = resolveCalls + 1
                 /\ OnException(Err("ValueError", None), log)
                 /\ UNCHANGED <<policy_id, context, decision, verified, verifyCalls,
                                execVars>>
            ELSE /\ resolveCalls' = resolveCalls + 1
                 /\ policy_id' = GetPolicyIdForTool(tool_name)
                 /\ context' = BuildPolicyContext(tool_name, agent_id, current_args)
                 /\ verifyCalls' = verifyCalls + 1
                 /\ verified' = [attempt |-> attempt, args |-> current_args,
                                 result |-> "pending"]
                 /\ pc' = "verifying"
                 /\ attemptLog' = log
                 /\ UNCHANGED <<current_args, last_error, outcome, raised, sleeps,
                                decision, execVars>>
    /\ UNCHANGED <<self, prev, params, attempt>>
    /\ UNCHANGED heapVars

\* verify_policy returns a decision or raises (lines 181-218)
VerifyReturn(d) ==
    /\ pc = "verifying"
    /\ authority = "threshold" =>
           d = IF ThresholdDenies(context) THEN "deny" ELSE "allow"
    /\ authority = "always_allow" => d = "allow"
    /\ verified' = [verified EXCEPT !.result = d]
    /\ IF d \in {"transient", "permanent"}
       THEN /\ OnException(VerifyError(d), attemptLog)
            /\ UNCHANGED <<decision, execVars>>
       ELSE /\ decision' = d
            /\ IF NotAllowed(d)
               THEN /\ OnPolicyDenied(Err("PolicyDeniedError", "decision"), attemptLog)
                    /\ UNCHANGED execVars
               ELSE Dispatch(attemptLog)
    /\ UNCHANGED <<self, prev, params, attempt, policy_id, context, verifyCalls, resolveCalls>>
    /\ UNCHANGED heapVars

\* session.call_tool returns a result or raises (lines 218-229)
ExecReturn(r) ==
    /\ pc = "executing"
    /\ IF r = "error"
       THEN OnException(Err("ExecutorError", None), attemptLog)
       ELSE IF HasDenialMarker(r)
            THEN OnPolicyDenied(Err("PolicyDeniedError", "tool_result"), attemptLog)
            ELSE /\ pc' = "done"
                 /\ outcome' = "Success"
                 /\ attemptLog' = EndAttempt(attemptLog, "success")
                 /\ UNCHANGED <<current_args, last_error, raised, sleeps>>
    /\ executed' = [executed EXCEPT !.result = r]
    /\ UNCHANGED <<self, prev, params, attempt, verifyVars, args_with_passport, execCalls>>
    /\ UNCHANGED heapVars

\* asyncio.sleep returns; "continue" takes the next value of range(max_retries)
SleepReturn ==
    /\ pc = "sleeping"
    /\ attempt' = attempt + 1
    /\ pc' = "loop"
    /\ UNCHANGED <<self, prev, params, current_args, last_error, verifyVars, execVars,
                   outcome, raised, sleeps, attemptLog>>
    /\ UNCHANGED heapVars

\* the frame of call_tool is gone
FrameGone ==
    /\ tool_name' = None
    /\ args' = EmptyDict
    /\ retry_on_denial' = FALSE
    /\ max_retries' = 3
    /\ retry_backoff' = 1
    /\ skip_verification' = FALSE
    /\ authority' = "any"
    /\ attempt' = 0
    /\ current_args' = EmptyDict
    /\ last_error' = NoError
    /\ policy_id' = None
    /\ context' = EmptyDict
    /\ decision' = None
    /\ args_with_passport' = EmptyDict
    /\ executed' = NotExecuted
    /\ outcome' = None
    /\ raised' = NoError
    /\ verified' = NotVerified
    /\ verifyCalls' = 0
    /\ execCalls' = 0
    /\ resolveCalls' = 0
    /\ sleeps' = <<>>
    /\ attemptLog' = <<>>
    /\ via' = None

\* the caller has its result or exception: the frame of call_tool is gone and
\* the client is ready for the next call
Return ==
    /\ pc = "done"
    /\ pc' = "idle"
    /\ FrameGone
    /\ prev' = NoPrev
    /\ UNCHANGED self
    /\ UNCHANGED heapVars

\* as Return, by a caller that goes on to make the same call again (the two
\* calls of example_policy_verification) against an always-allowing decision client
ReturnThenRepeat ==
    /\ pc = "done"
    /\ via = "call_tool"
    /\ authority = "always_allow"
    /\ pc' = "idle"
    /\ FrameGone
    /\ prev' = [calls |-> 1,
                inputs |-> <<tool_name, args, retry_on_denial, max_retries, retry_backoff,
                             skip_verification, authority>>,
                attempts |-> Len(attemptLog), verifyCalls |-> verifyCalls,
                execCalls |-> execCalls, outcome |-> outcome]
    /\ UNCHANGED self
    /\ UNCHANGED heapVars

\* the repeated call: call_tool with the inputs of the previous call
CallAgain ==
    /\ pc = "idle"
    /\ prev.calls > 0
    /\ via' = "call_tool"
    /\ Invoke(prev.inputs[1], prev.inputs[2], prev.inputs[3], prev.inputs[4],
              prev.inputs[5], prev.inputs[6], prev.inputs[7])
    /\ UNCHANGED <<self, prev>>
    /\ UNCHANGED heapVars

\* a caller awaits call_tool with inputs of its choice
CallTool ==
    /\ pc = "idle"
    /\ prev.calls = 0
    /\ via' = "call_tool"
    /\ \E t \in ToolNames, a \in ArgChoices, flag \in BOOLEAN, maxr \in 0..MaxRetries,
          backoff \in Backoffs, skip \in BOOLEAN, auth \in Authorities :
          Invoke(t, a, flag, maxr, backoff, skip, auth)
    /\ UNCHANGED <<self, prev>>
    /\ UNCHANGED heapVars

\* the body shared by handle_tool_use and handle_function_call: "if not
\* self.mcp_client: await self.initialize_mcp()" runs before the try block, so
\* an exception of connect() leaves the handler; then call_tool is awaited
\* with the handler's fixed retry settings
HandlerCall(name, flag, maxr) ==
    /\ prev.calls = 0
    /\ aport_client
    /\ via' = name
    /\ mcp_client' = "client"
    /\ \E connects \in BOOLEAN :
          IF mcp_client = None /\ ~connects
          THEN /\ session' = None
               /\ Raise(Err("ConnectError", None))
               /\ UNCHANGED <<tool_name, args, retry_on_denial, max_retries, retry_backoff,
                              skip_verification, authority, attempt, current_args,
                              last_error, verifyVars, execVars, sleeps, attemptLog>>
          ELSE /\ session' = IF mcp_client = None THEN SessionAfterConnect ELSE session
               /\ \E t \in ToolNames, a \in ArgChoices, auth \in Authorities :
                     Invoke(t, a, flag, maxr, 1, FALSE, auth)
    /\ UNCHANGED <<aport_client, agent_id, prev>>
    /\ UNCHANGED heapVars

\* AnthropicWithMCPPassport.handle_tool_use: retry_on_denial=False, max_retries=1
HandleToolUse ==
    /\ pc = "idle"
    /\ HandlerCall("handle_tool_use", FALSE, 1)

\* OpenAIWithMCPPassport.handle_function_call: retry_on_denial=True, max_retries=3
HandleFunctionCall ==
    /\ pc = "idle"
    /\ HandlerCall("handle_function_call", TRUE, 3)

\* how the caller of the entry point receives the end of the call: call_tool
\* returns the tool result and raises everything else; the handlers catch
\* what call_tool raises and return a mapping, but not what connect() raises
Delivered ==
    IF pc # "done" THEN None
    ELSE IF via = "call_tool"
         THEN IF outcome = "Success" THEN "result" ELSE "exception"
         ELSE IF raised.type = "ConnectError" THEN "exception" ELSE "mapping"

Next ==
    \/ Connect
    \/ CallTool
    \/ HandleToolUse
    \/ HandleFunctionCall
    \/ LoopExit
    \/ AttemptStart
    \/ \E d \in VerifyOutcomes : VerifyReturn(d)
    \/ \E r \in ExecOutcomes : ExecReturn(r)
    \/ SleepReturn
    \/ Return
    \/ ReturnThenRepeat
    \/ CallAgain

Spec == Init /\ [][Next]_vars

\* the event loop resumes a coroutine that can run, and every awaited call
\* (verify_policy, session.call_tool, asyncio.sleep) returns in the end
Fairness ==
    /\ WF_vars(AttemptStart)
    /\ WF_vars(LoopExit)
    /\ WF_vars(\E d \in VerifyOutcomes : VerifyReturn(d))
    /\ WF_vars(\E r \in ExecOutcomes : ExecReturn(r))
    /\ WF_vars(SleepReturn)

\* call_tool with a decision client that may give any answer and the default
\* retry_backoff: what the call does next depends on neither
CallToolAnyAnswer ==
    /\ pc = "idle"
    /\ CallTool
    /\ authority' = "any"
    /\ retry_backoff' = 1

LiveNext ==
    \/ Connect
    \/ CallToolAnyAnswer
    \/ HandleToolUse
    \/ HandleFunctionCall
    \/ LoopExit
    \/ AttemptStart
    \/ \E d \in VerifyOutcomes : VerifyReturn(d)
    \/ \E r \in ExecOutcomes : ExecReturn(r)
    \/ SleepReturn
    \/ Return

FairSpec == Init /\ [][LiveNext]_vars /\ Fairness

\* as Fairness, with a decision client that need not answer: call_tool awaits
\* verify_policy(...) with no deadline of its own (lines 181-185)
FairnessUnlessVerifyHangs ==
    /\ WF_vars(AttemptStart)
    /\ WF_vars(LoopExit)
    /\ WF_vars(\E r \in ExecOutcomes : ExecReturn(r))
    /\ WF_vars(SleepReturn)

HangSpec == Init /\ [][LiveNext]_vars /\ FairnessUnlessVerifyHangs

\* a cancellation that "except Exception" catches like any error of the attempt
CancelCaughtByHandler ==
    /\ pc \in {"verifying", "executing"}
    /\ last_error' = Err("CancelledError", None)
    /\ attemptLog' = EndAttempt(attemptLog, "cancelled")
    /\ IF RetryOnError(attempt, max_retries)
       THEN Sleep
       ELSE /\ Raise(Err("CancelledError", None))
            /\ UNCHANGED sleeps
    /\ UNCHANGED <<self, prev, params, attempt, current_args, verifyVars, execVars>>
    /\ UNCHANGED heapVars

\* the task awaiting call_tool is cancelled while the coroutine is suspended:
\* CancelledError is raised at the await; it is a BaseException, which neither
\* "except PolicyDeniedError" nor "except Exception" catches, and an exception
\* raised by the sleep inside a handler leaves the try statement as well
Cancel ==
    /\ pc \in {"verifying", "executing", "sleeping"}
    /\ attemptLog' = EndAttempt(attemptLog, "cancelled")
    /\ Raise(Err("CancelledError", None))
    /\ UNCHANGED <<self, prev, params, attempt, current_args, last_error, verifyVars,
                   execVars, sleeps>>
    /\ UNCHANGED heapVars

CancelNext == LiveNext \/ Cancel

CancelSpec == Init /\ [][CancelNext]_vars

\* ------------------------------------------------ actions of concurrent calls
\* the caller builds the mapping it will pass as args
CallerBuildsArgs ==
    /\ pc = "idle"
    /\ aport_client
    /\ session # None
    /\ CallerRef \notin DOMAIN heap
    /\ \E a \in ConcArgChoices :
          /\ heap' = Store(heap, CallerRef, a)
          /\ original' = a
    /\ UNCHANGED <<mainVars, frames>>

\* call c is started with the caller's mapping (lines 143-167)
ConcInvoke(c) ==
    /\ CallerRef \in DOMAIN heap
    /\ frames[c].pc = "idle"
    /\ \E t \in ConcTools, flag \in BOOLEAN, maxr \in 1..ConcRetries :
          frames' = [frames EXCEPT ![c] =
                        [IdleFrame EXCEPT !.pc = "loop", !.tool_name = t,
                                          !.retry_on_denial = flag, !.max_retries = maxr,
                                          !.current_args = CurrentArgsRef(c)]]
    /\ heap' = Store(heap, CurrentArgsRef(c), heap[CallerRef])
    /\ UNCHANGED <<mainVars, original>>

\* the handlers of call c: "except PolicyDeniedError" with the item assignment
\* of lines 240 and 243 on current_args, and "except Exception"
ConcOnPolicyDenied(c, f, h) ==
    IF RetryOnDenial(f.retry_on_denial, f.attempt, f.max_retries)
    THEN /\ heap' = Store(h, f.current_args, AdjustArgs(f.tool_name, h[f.current_args]))
         /\ frames' = [frames EXCEPT ![c] =
                           [f EXCEPT !.pc = "sleeping", !.denials = f.denials + 1]]
    ELSE /\ heap' = h
         /\ frames' = [frames EXCEPT ![c] = [f EXCEPT !.pc = "done"]]

ConcOnException(c, f, h) ==
    /\ heap' = h
    /\ frames' = [frames EXCEPT ![c] =
                      [f EXCEPT !.pc = IF RetryOnError(f.attempt, f.max_retries)
                                       THEN "sleeping" ELSE "done"]]

\* an iteration of call c starts: the context is built and verify_policy awaited
ConcAttemptStart(c) ==
    LET f == frames[c]
        ref == ContextRef(c, f.attempt) IN
    /\ f.pc = "loop"
    /\ RangeHasNext(f.attempt, f.max_retries)
    /\ heap' = Store(heap, ref, BuildPolicyContext(f.tool_name, agent_id, heap[f.current_args]))
    /\ frames' = [frames EXCEPT ![c] =
                      [f EXCEPT !.pc = "verifying", !.context = ref,
                                !.handed = f.handed \cup {ref}]]
    /\ UNCHANGED <<mainVars, original>>

\* verify_policy of call c returns or raises; on allow the dispatch follows
ConcVerifyReturn(c, d) ==
    LET f == frames[c]
        ref == DispatchRef(c, f.attempt) IN
    /\ f.pc = "verifying"
    /\ IF d \in {"transient", "permanent"}
       THEN ConcOnException(c, f, heap)
       ELSE IF NotAllowed(d)
            THEN ConcOnPolicyDenied(c, f, heap)
            ELSE /\ heap' = Store(heap, ref, AttachPassport(heap[f.current_args], agent_id))
                 /\ frames' = [frames EXCEPT ![c] =
                                   [f EXCEPT !.pc = "executing", !.args_with_passport = ref,
                                             !.handed = f.handed \cup {ref}]]
    /\ UNCHANGED <<mainVars, original>>

\* session.call_tool of call c returns or raises
ConcExecReturn(c, r) ==
    LET f == frames[c] IN
    /\ f.pc = "executing"
    /\ IF r = "error"
       THEN ConcOnException(c, f, heap)
       ELSE IF HasDenialMarker(r)
            THEN ConcOnPolicyDenied(c, f, heap)
            ELSE /\ heap' = heap
                 /\ frames' = [frames EXCEPT ![c] = [f EXCEPT !.pc = "done"]]
    /\ UNCHANGED <<mainVars, original>>

\* the backoff sleep of call c returns; "continue"
ConcSleepReturn(c) ==
    LET f == frames[c] IN
    /\ f.pc = "sleeping"
    /\ frames' = [frames EXCEPT ![c] =
                      [f EXCEPT !.pc = "loop", !.attempt = f.attempt + 1,
                                !.retries = f.retries + 1]]
    /\ UNCHANGED <<mainVars, heap, original>>

ConcNext ==
    \/ Connect
    \/ CallerBuildsArgs
    \/ \E c \in Calls : ConcInvoke(c)
    \/ \E c \in Calls : ConcAttemptStart(c)
    \/ \E c \in Calls, d \in VerifyOutcomes : ConcVerifyReturn(c, d)
    \/ \E c \in Calls, r \in ExecOutcomes : ConcExecReturn(c, r)
    \/ \E c \in Calls : ConcSleepReturn(c)

ConcSpec == Init /\ [][ConcNext]_vars

\* ------------------------------------------------------------------ claims
Attempts == Len(attemptLog)

\* C1: with skip_verification false, whenever a session.call_tool is in flight
\* the verification of the same attempt has answered allow; no executor call
\* is made in an attempt whose verification denied, failed or did not run.
C1_ExecutorOnlyAfterAllow ==
    (pc = "executing" /\ ~skip_verification) =>
        /\ verified.attempt = attempt
        /\ verified.result = "allow"
        /\ decision = "allow"
        /\ execCalls <= verifyCalls

C1_Witness ==
    /\ pc = "executing"
    /\ ~skip_verification
    /\ attempt >= 1
    /\ attemptLog[1].end = "denied"

\* C2: when call_tool returns a result with verification enabled, the
\* arguments sent to the executor (without the attached agent_id) are the
\* arguments the allowed policy context of that attempt was built from.
C2_SuccessDispatchesVerifiedArgs ==
    (pc = "done" /\ outcome = "Success" /\ ~skip_verification) =>
        /\ verified.attempt = attempt
        /\ verified.result = "allow"
        /\ context = BuildPolicyContext(tool_name, AGENT_ID, verified.args)
        /\ DictDrop(args_with_passport, "agent_id") = DictDrop(verified.args, "agent_id")

C2_Witness ==
    /\ pc = "done"
    /\ outcome = "Success"
    /\ ~skip_verification
    /\ Attempts >= 2
    /\ current_args # args

\* C3: for a tool name absent from the policy mapping, call_tool with
\* verification enabled ends Failed on the first attempt, with no call to the
\* decision client or the executor and no retry.
C3_UnmappedToolFailsAtOnce ==
    (pc # "idle" /\ aport_client /\ ~skip_verification
       /\ tool_name \notin DOMAIN tool_to_policy_map /\ Attempts >= 1) =>
        /\ Attempts = 1
        /\ pc = "done"
        /\ outcome = "Failed"
        /\ sleeps = <<>>
        /\ verifyCalls = 0
        /\ execCalls = 0

\* C4: when verify_policy fails with the permanent error InvalidPolicyId,
\* call_tool ends Failed at once: no sleep, no further verification and no
\* executor call follow that error.
C4_PermanentErrorEndsCall ==
    (pc # "idle" /\ verified.result = "permanent") =>
        /\ pc = "done"
        /\ outcome = "Failed"
        /\ verified.attempt = attempt

\* C5 as stated: a client-side denial with retry_on_denial false ends the
\* call Denied after exactly one verification call and zero executor calls.
C5_DenialEndsAfterOneVerification ==
    (pc # "idle" /\ ~retry_on_denial /\ verified.result = "deny") =>
        /\ pc = "done"
        /\ outcome = "Denied"
        /\ verifyCalls = 1
        /\ execCalls = 0

\* C5 amended: a client-side denial with retry_on_denial false ends the call
\* Denied in the attempt that was denied, carrying the decision; that attempt
\* made one verification call and no executor call, and every earlier attempt
\* ended in an error; the totals are one and zero when the denial comes on
\* the first attempt.
C5_DenialEndsCallInItsAttempt ==
    (pc # "idle" /\ ~retry_on_denial /\ verified.result = "deny") =>
        /\ pc = "done"
        /\ outcome = "Denied"
        /\ raised = Err("PolicyDeniedError", "decision")
        /\ verified.attempt = attempt
        /\ Attempts = attempt + 1
        /\ attemptLog[Attempts].end = "denied"
        /\ \A i \in 1..(Attempts - 1) : attemptLog[i].end = "error"
        /\ verifyCalls = Attempts
        /\ execCalls < Attempts
        /\ (attempt = 0 => verifyCalls = 1 /\ execCalls = 0)

C5_Witness ==
    /\ pc = "done"
    /\ outcome = "Denied"
    /\ ~retry_on_denial
    /\ verified.result = "deny"
    /\ max_retries = 3
    /\ attempt = 0

\* C6: after an attempt that ended in a denial, a retry follows only if
\* retry_on_denial is set and attempt + 1 < max_retries; otherwise the call
\* is over and the denial is raised as PolicyDeniedError (Denied), also when
\* the denial comes on the last attempt with retry enabled.
C6_DenialRetryOnlyWhenPlanned ==
    (Attempts >= 1 /\ attemptLog[Attempts].end = "denied") =>
        /\ pc \in {"sleeping", "loop", "done"}
        /\ (pc = "sleeping" => retry_on_denial /\ attempt + 1 < max_retries)
        /\ (pc = "loop" => retry_on_denial /\ attempt < max_retries)
        /\ (pc = "done" =>
               /\ outcome = "Denied"
               /\ raised.type = "PolicyDeniedError"
               /\ ~(retry_on_denial /\ attempt + 1 < max_retries))

C6_Witness ==
    /\ pc = "done"
    /\ outcome = "Denied"
    /\ retry_on_denial
    /\ max_retries = 3
    /\ attempt + 1 = max_retries
    /\ attemptLog[1].end = "denied"

\* C7: the value of a reducible field (amount of process_refund, limit of
\* export_customer_data), started at a positive integer, is never below 1 in
\* any attempt.
C7_AdjustedValueAtLeastOne ==
    \A i \in 1..Attempts :
        LET f == ReducibleField(tool_name)
            a == attemptLog[i].args
        IN  (f # None /\ f \in DOMAIN a) => a[f] >= 1

\* C8: from an attempt that ended in a denial to the next attempt, the value
\* of the reducible field strictly decreases as long as it has not reached 1.
C8_StrictlyDecreasingUntilOne ==
    \A i \in 1..(Attempts - 1) :
        LET f == ReducibleField(tool_name)
            a == attemptLog[i].args
            b == attemptLog[i + 1].args
        IN  (f # None /\ f \in DOMAIN a /\ attemptLog[i].end = "denied" /\ a[f] > 1) =>
                (f \in DOMAIN b /\ b[f] < a[f])

C8_Witness ==
    /\ Attempts = 3
    /\ tool_name = "export_customer_data"
    /\ "limit" \in DOMAIN args
    /\ attemptLog[1].args["limit"] = 4
    /\ attemptLog[2].args["limit"] = 2
    /\ attemptLog[3].args["limit"] = 1

\* the refund scenario of example_error_handling against the threshold client
RefundScenario ==
    /\ pc # "idle"
    /\ aport_client
    /\ session # None
    /\ tool_name = "process_refund"
    /\ args = [amount |-> 1000000, currency |-> "USD"]
    /\ retry_on_denial
    /\ max_retries = 3
    /\ ~skip_verification
    /\ authority = "threshold"

C10_WithinAttemptBudget ==
    pc # "idle" =>
        /\ Attempts <= max_retries
        /\ attempt <= max_retries
        /\ verifyCalls <= Attempts
        /\ execCalls <= Attempts
        /\ Len(sleeps) <= Attempts
        /\ (Len(sleeps) = 0 \/ Len(sleeps) < max_retries)

C10_Witness ==
    /\ pc = "done"
    /\ max_retries = 3
    /\ Attempts = 3
    /\ attemptLog[1].end = "denied"
    /\ attemptLog[2].end = "error"
    /\ verifyCalls = 3
    /\ execCalls = 3

\* C11: decisions are never reused: with verification enabled every attempt
\* of a mapped tool issues its own verify_policy call, also when its
\* arguments are those of an earlier attempt; and two consecutive calls with
\* the same arguments against an always-allowing decision client, each
\* returning from its first attempt, make exactly two verification calls and
\* two executor dispatches.
C11_EveryAttemptVerifiesAfresh ==
    /\ (pc # "idle" /\ ~skip_verification /\ tool_name \in DOMAIN tool_to_policy_map) =>
           verifyCalls = Attempts
    /\ (prev.calls > 0 /\ pc = "done" /\ ~skip_verification
          /\ tool_name \in DOMAIN tool_to_policy_map) =>
           /\ prev.verifyCalls + verifyCalls = prev.attempts + Attempts
           /\ (prev.outcome = "Success" /\ prev.attempts = 1
                 /\ outcome = "Success" /\ Attempts = 1) =>
                  /\ prev.verifyCalls + verifyCalls = 2
                  /\ prev.execCalls + execCalls = 2

C11_Witness ==
    /\ prev.calls > 0
    /\ pc = "done"
    /\ ~skip_verification
    /\ outcome = "Success"
    /\ prev.outcome = "Success"
    /\ Attempts = 1
    /\ prev.attempts = 1
    /\ verifyCalls = 1
    /\ execCalls = 1

\* C12: a transient failure of the decision client (AuthorityUnreachable)
\* consumes the attempt in which it happened: that attempt ends in error
\* without any executor call, the arguments stay those that were verified,
\* a further attempt follows only while attempts are left, and when the
\* failure comes in the last of max_retries attempts the call ends Failed
\* with that AuthorityUnreachable error.
C12_TransientFailureConsumesAttempt ==
    verified.result = "transient" =>
        /\ Attempts = verified.attempt + 1
        /\ attemptLog[Attempts].end = "error"
        /\ executed.attempt # verified.attempt
        /\ execCalls < Attempts
        /\ current_args = verified.args
        /\ pc \in {"sleeping", "loop", "done"}
        /\ pc \in {"sleeping", "loop"} => Attempts < max_retries
        /\ pc = "done" =>
               /\ Attempts = max_retries
               /\ outcome = "Failed"
               /\ raised = Err("AuthorityUnreachable", None)

C12_Witness ==
    /\ pc = "done"
    /\ verified.result = "transient"
    /\ max_retries = 3
    /\ Attempts = 3
    /\ verifyCalls = 3
    /\ execCalls = 0
    /\ outcome = "Failed"

\* C13: an attempt that ends in an error is followed, if at all, by an
\* attempt with identical arguments; after an executor error a further
\* attempt follows exactly while fewer than max_retries attempts were made,
\* and when the executor fails in the last attempt the call ends Failed with
\* the executor's error of that attempt, whatever earlier attempts raised.
C13_ExecutorErrorRetriedUnchanged ==
    /\ \A j \in 1..(Attempts - 1) :
           attemptLog[j].end = "error" => attemptLog[j + 1].args = attemptLog[j].args
    /\ (executed.result = "error" /\ executed.attempt = Attempts - 1) =>
           /\ attemptLog[Attempts].end = "error"
           /\ current_args = attemptLog[Attempts].args
           /\ pc \in {"sleeping", "loop", "done"}
           /\ pc \in {"sleeping", "loop"} => Attempts < max_retries
           /\ pc = "done" =>
                  /\ Attempts = max_retries
                  /\ outcome = "Failed"
                  /\ raised = Err("ExecutorError", None)

C13_Witness ==
    /\ pc = "done"
    /\ executed.result = "error"
    /\ executed.attempt = 1
    /\ max_retries = 2
    /\ Attempts = 2
    /\ verifyCalls = 2
    /\ execCalls = 1
    /\ "amount" \in DOMAIN args
    /\ attemptLog[2].args = args
    /\ raised = Err("ExecutorError", None)

\* the last attempt ended in a denial and the denial handler has acted on it:
\* the call ended Denied when retry is disabled or no attempt is left, and
\* otherwise the arguments are adjusted and the backoff of this attempt is slept
LastDenialHandled ==
    /\ attemptLog[Attempts].end = "denied"
    /\ outcome # "Success"
    /\ pc \in {"sleeping", "loop", "done"}
    /\ pc = "done" =>
           /\ outcome = "Denied"
           /\ raised.type = "PolicyDeniedError"
           /\ ~(retry_on_denial /\ Attempts < max_retries)
    /\ pc \in {"sleeping", "loop"} =>
           /\ retry_on_denial
           /\ Attempts < max_retries
           /\ current_args = AdjustArgs(tool_name, attemptLog[Attempts].args)
           /\ Len(sleeps) = Attempts
           /\ sleeps[Attempts] = retry_backoff * Attempts

\* C14: a denial marker found in the tool result is handled as a denial
\* decision of the client is: the call ends Denied when retry is disabled or
\* no attempt is left, and otherwise the same adjustment and backoff apply
\* and the next attempt starts from verification; an attempt whose result
\* carries the marker never ends in Success.
C14_ServerDenialHandledAsClientDenial ==
    /\ (executed.result = "marker" /\ executed.attempt = Attempts - 1) => LastDenialHandled
    /\ (verified.result = "deny" /\ verified.attempt = Attempts - 1) => LastDenialHandled
    /\ (executed.result = "marker" /\ executed.attempt < Attempts - 1 /\ ~skip_verification) =>
           /\ verified.attempt = Attempts - 1
           /\ attemptLog[executed.attempt + 2].args =
                  AdjustArgs(tool_name, attemptLog[executed.attempt + 1].args)
    /\ \A j \in 1..Attempts :
           (executed.result = "marker" /\ executed.attempt = j - 1) =>
               attemptLog[j].end = "denied"

C14_Witness ==
    /\ executed.result = "marker"
    /\ executed.attempt = 0
    /\ verifyCalls = 2
    /\ pc = "verifying"
    /\ tool_name = "process_refund"
    /\ "amount" \in DOMAIN args
    /\ args["amount"] = 4
    /\ verified.args["amount"] = 2
    /\ sleeps = <<retry_backoff>>

\* C15: the i-th sleep of a call, slept after attempt i (index i-1) and before
\* attempt i+1, lasts retry_backoff * i, after a denial and after an error
\* alike; a sleep is entered only when a further attempt is left, so the
\* final attempt is followed by none.
C15_BackoffLinearInAttempt ==
    /\ \A i \in 1..Len(sleeps) :
           /\ sleeps[i] = retry_backoff * i
           /\ attemptLog[i].end \in {"denied", "error"}
    /\ Len(sleeps) <= Attempts
    /\ pc = "sleeping" =>
           /\ Len(sleeps) = Attempts
           /\ Attempts < max_retries
    /\ (pc = "done" /\ Attempts >= 1) => Len(sleeps) = Attempts - 1

C15_Witness ==
    /\ pc = "done"
    /\ retry_backoff = 2
    /\ max_retries = 3
    /\ Attempts = 3
    /\ attemptLog[1].end = "denied"
    /\ attemptLog[2].end = "error"
    /\ attemptLog[3].end \in {"denied", "error"}
    /\ sleeps = <<2, 4>>

\* C16: every call that ends in a failure (Denied or Failed) hands the failure
\* to its caller as a returned value, never as a raised exception, through
\* call_tool and through handle_tool_use and handle_function_call, a failure
\* to connect included.
C16_FailuresReturnedNotThrown ==
    (pc = "done" /\ outcome \in {"Denied", "Failed"}) => Delivered # "exception"

\* C17: the arguments of every executor call hold the client's own agent_id
\* under "agent_id", in every attempt and also when the caller's arguments
\* hold another agent_id, and hold every other argument as it is; the
\* client's agent_id is the one it was constructed with, during and between
\* calls.
C17_DispatchCarriesOwnIdentity ==
    /\ agent_id = AGENT_ID
    /\ pc = "executing" =>
           /\ DOMAIN args_with_passport = DOMAIN current_args \cup {"agent_id"}
           /\ args_with_passport["agent_id"] = agent_id
           /\ \A k \in DOMAIN current_args \ {"agent_id"} :
                  args_with_passport[k] = current_args[k]

C17_Witness ==
    /\ pc = "executing"
    /\ attempt = 1
    /\ "agent_id" \in DOMAIN args
    /\ args["agent_id"] = "ap_other"
    /\ args_with_passport["agent_id"] = AGENT_ID

\* C18: the context handed to verify_policy holds the client's own agent_id
\* under "agent_id", whatever the caller's arguments hold.
C18_ContextCarriesOwnIdentity ==
    pc = "verifying" => context["agent_id"] = agent_id

\* the keys _build_policy_context fills for tool t, with their defaults
EnrichmentDefaults(t) ==
    IF t = "merge_pull_request" THEN [base_branch |-> "main", pr_size_kb |-> 250]
    ELSE IF t = "process_refund" THEN [reason_code |-> "customer_request"]
    ELSE EmptyDict

\* C19: in the context built for a verification every key of the arguments
\* has the caller's value; the context's other keys are "agent_id", with the
\* client's identity, and the defaults of the tool's enrichment rule for the
\* keys the caller omitted; a tool without a rule gets the arguments and the
\* identity and nothing else, and its context is built and verified.
C19_EnrichmentKeepsCallerValues ==
    verified # NotVerified =>
        LET a == verified.args
            defaults == EnrichmentDefaults(tool_name) IN
        /\ \A k \in DOMAIN a : context[k] = a[k]
        /\ DOMAIN context = DOMAIN a \cup {"agent_id"} \cup DOMAIN defaults
        /\ \A k \in DOMAIN context \ DOMAIN a :
               context[k] = IF k = "agent_id" THEN agent_id ELSE defaults[k]

C19_Witness ==
    /\ pc = "verifying"
    /\ tool_name = "merge_pull_request"
    /\ "pr_size_kb" \in DOMAIN args
    /\ context["pr_size_kb"] = 10
    /\ context["base_branch"] = "main"

\* C20: a call that ends Denied raises a PolicyDeniedError whose result is
\* the denying decision, after a denial of the decision client and after a
\* denial marker in the tool result alike.
C20_DeniedCarriesDecision ==
    (pc = "done" /\ outcome = "Denied") => raised.result = "decision"

\* C21: a call that has started ends, when every awaited call returns, in a
\* terminal state with exactly one of the outcomes Success, Denied, Failed;
\* the outcome is set only in the terminal state, and from the terminal
\* state the only step is the return to the caller, so that no verification
\* or executor call follows it and it is reached once per call.
C21_TerminatesExactlyOnce ==
    /\ [](pc = "done" <=> outcome \in {"Success", "Denied", "Failed"})
    /\ [](pc # "done" => outcome = None)
    /\ [][pc = "done" => pc' = "idle"]_vars
    /\ (pc \notin {"idle", "done"}) ~> (pc = "done")

C21_Witness ==
    /\ pc = "done"
    /\ outcome = "Success"
    /\ max_retries = 3
    /\ Attempts = 3
    /\ attemptLog[1].end = "denied"
    /\ attemptLog[2].end = "error"

\* C22: a call suspended in verify_policy ends in any case, also when the
\* decision client never answers: the deadline of the call cancels the
\* suspension and the call ends (Failed, with a timeout reason).
C22_SuspendedVerificationEnds ==
    (pc = "verifying") ~> (pc = "done")

\* C23: a cancellation delivered while the call is suspended (in the backoff
\* sleep, in verify_policy or in the executor call) ends the call there: the
\* cancelled attempt is the last one, the call is over with CancelledError
\* raised to the caller, and the retry handlers never see the cancellation,
\* so that no verification and no dispatch follows it.
C23_CancellationEndsCall ==
    /\ last_error.type # "CancelledError"
    /\ \A j \in 1..Attempts :
           attemptLog[j].end = "cancelled" =>
               /\ j = Attempts
               /\ pc = "done"
               /\ raised = Err("CancelledError", None)
               /\ verifyCalls <= Attempts
               /\ execCalls <= Attempts
    /\ raised.type = "CancelledError" => attemptLog[Attempts].end = "cancelled"

\* cancelled in the backoff sleep with an attempt left
C23_Witness ==
    /\ pc = "done"
    /\ raised.type = "CancelledError"
    /\ Attempts = 1
    /\ max_retries = 3
    /\ Len(sleeps) = 1
    /\ verifyCalls = 1
    /\ execCalls = 0

\* C26: from one attempt to the next the arguments keep their keys, and a
\* value changes only after a denial and only under "amount" for
\* process_refund or, when process_refund did not change amount, under
\* "limit" for export_customer_data; so at most one key changes, every
\* other key keeps its value, and for any other tool or without the key
\* the attempt after a denial runs with the arguments of the denied one.
C26_AdjustmentChangesOneKey ==
    \A j \in 1..(Attempts - 1) :
        LET a == attemptLog[j].args
            b == attemptLog[j + 1].args
            changed == {k \in DOMAIN a : b[k] # a[k]} IN
        /\ DOMAIN b = DOMAIN a
        /\ Cardinality(changed) <= 1
        /\ changed # {} => attemptLog[j].end = "denied"
        /\ changed \subseteq
               (IF tool_name = "process_refund" THEN {"amount"}
                ELSE IF tool_name = "export_customer_data" THEN {"limit"}
                ELSE {})

C26_Witness ==
    /\ tool_name = "process_refund"
    /\ Attempts = 3
    /\ args = [amount |-> 2, limit |-> 2]
    /\ attemptLog[1].end = "denied"
    /\ attemptLog[2].args = [amount |-> 1, limit |-> 2]
    /\ attemptLog[2].end = "denied"
    /\ attemptLog[3].args = [amount |-> 0, limit |-> 2]

\* C27: with skip_verification set, a call resolves no policy id and makes
\* no verify_policy call in any attempt, and every attempt of a connected
\* client goes straight to the executor, also for a tool that has no entry
\* in the policy mapping; a call through handle_tool_use or
\* handle_function_call, which do not pass skip_verification, runs with it
\* false.
C27_SkipVerificationBypassesPolicy ==
    /\ (pc # "idle" /\ skip_verification) =>
           /\ resolveCalls = 0
           /\ verifyCalls = 0
           /\ verified = NotVerified
           /\ session # None => execCalls = Attempts
    /\ via \in {"handle_tool_use", "handle_function_call"} => ~skip_verification

C27_Witness ==
    /\ pc = "done"
    /\ skip_verification
    /\ tool_name = "nonexistent_tool"
    /\ outcome = "Success"
    /\ Attempts = 2
    /\ execCalls = 2
    /\ args_with_passport = [agent_id |-> AGENT_ID, currency |-> "USD"]

\* C28: the session a connected client holds is open (its context manager
\* blocks have not been left), so that every dispatch of call_tool goes over
\* a live session.
C28_SessionOpenAfterConnect ==
    /\ session # None => session = "open"
    /\ pc = "executing" => session = "open"

\* the arguments after n denial retries of tool t that started from a
RECURSIVE AdjustN(_, _, _)
AdjustN(t, a, n) == IF n = 0 THEN a ELSE AdjustArgs(t, AdjustN(t, a, n - 1))

\* C24: two calls running concurrently on one client, started with the same
\* caller mapping, are independent under every interleaving: each has a
\* working mapping of its own, which holds what the caller passed adjusted
\* once per denial retry of that call and of no other, each verifies and
\* dispatches those arguments, and each counts its own attempts against its
\* own max_retries.
C24_ConcurrentCallsIndependent ==
    \A c \in Calls :
        LET f == frames[c]
            mine == AdjustN(f.tool_name, original, f.denials) IN
        f.pc # "idle" =>
            /\ f.current_args # CallerRef
            /\ \A d \in Calls \ {c} : frames[d].current_args # f.current_args
            /\ heap[f.current_args] = mine
            /\ f.attempt = f.retries
            /\ f.attempt < f.max_retries
            /\ f.pc = "verifying" =>
                   heap[f.context] = BuildPolicyContext(f.tool_name, agent_id, mine)
            /\ f.pc = "executing" =>
                   heap[f.args_with_passport] = AttachPassport(mine, agent_id)

C24_Witness ==
    /\ frames[1].tool_name = "process_refund"
    /\ frames[2].tool_name = "process_refund"
    /\ original = [amount |-> 4, currency |-> "USD"]
    /\ frames[1].denials = 1
    /\ frames[1].pc = "verifying"
    /\ heap[frames[1].context]["amount"] = 2
    /\ frames[2].denials = 0
    /\ frames[2].pc = "executing"
    /\ heap[frames[2].args_with_passport]["amount"] = 4

\* C25: the caller's mapping holds at every moment what the caller put in
\* it, and no step of any call changes a mapping that was handed to the
\* decision client or to the executor before: the adjustment for a later
\* attempt is written to the call's own working copy only.
C25_HandedOutMappingsUnchanged ==
    /\ [](CallerRef \in DOMAIN heap => heap[CallerRef] = original)
    /\ [][\A c \in Calls : \A o \in frames[c].handed : heap'[o] = heap[o]]_vars

C25_Witness ==
    /\ frames[1].tool_name = "process_refund"
    /\ original = [amount |-> 4, currency |-> "USD"]
    /\ frames[1].attempt = 1
    /\ frames[1].pc = "verifying"
    /\ DispatchRef(1, 0) \in frames[1].handed
    /\ heap[DispatchRef(1, 0)]["amount"] = 4
    /\ heap[ContextRef(1, 0)]["amount"] = 4
    /\ heap[frames[1].current_args]["amount"] = 2
    /\ heap[CallerRef]["amount"] = 4

====
